---- MODULE Spec2Model ----
(***************************************************************************)
(* Model of app.py: the employees table and the three mutating handlers    *)
(* employee_add_execute, employee_edit_update and employee_del_execute,    *)
(* together with the request teardown and the result pages they redirect   *)
(* to.                                                                     *)
(*                                                                         *)
(* Text (a Python str) is a sequence of Unicode code points.  A Python int *)
(* is arbitrary-precision; it is represented by its canonical decimal      *)
(* numeral (what str() prints), again a sequence of code points, so that   *)
(* values outside the 64-bit range of an SQLite INTEGER exist in the model.*)
(***************************************************************************)
EXTENDS Integers, Sequences, FiniteSets, TLC

(* ---------------------------- bounds ----------------------------------- *)

\* employee numbers 1..MaxId are submitted as ids and manager ids
MaxId == 2

(* ---------------------------- text and int() --------------------------- *)

\* the decimal numeral of a one-digit number, as text
Numeral(n) == << 48 + n >>

\* twenty nines: an integer literal above 2^63 - 1
HugeText == [i \in 1..20 |-> 57]

IsDigit(c) == c \in 48..57

\* the ASCII whitespace that str.strip() and int() skip
IsSpace(c) == c \in {9, 10, 11, 12, 13, 32}

RECURSIVE LStrip(_)
LStrip(s) == IF s # << >> /\ IsSpace(Head(s)) THEN LStrip(Tail(s)) ELSE s

RECURSIVE RStrip(_)
RStrip(s) ==
    IF s # << >> /\ IsSpace(s[Len(s)]) THEN RStrip(SubSeq(s, 1, Len(s) - 1))
    ELSE s

\* digits, optionally grouped by single underscores
DigitsOk(s) ==
    /\ s # << >>
    /\ IsDigit(s[1])
    /\ IsDigit(s[Len(s)])
    /\ \A i \in 1..Len(s) : IsDigit(s[i]) \/ s[i] = 95
    /\ \A i \in 1..(Len(s) - 1) : ~(s[i] = 95 /\ s[i + 1] = 95)

RECURSIVE StripZeros(_)
StripZeros(s) ==
    IF Len(s) > 1 /\ Head(s) = 48 THEN StripZeros(Tail(s)) ELSE s

\* the value int() raises ValueError for; no numeral is empty
ValueError == << >>

\* int(text): the canonical numeral of the parsed integer, or ValueError
int(text) ==
    LET s == RStrip(LStrip(text))
        signed == s # << >> /\ Head(s) \in {43, 45}
        body == IF signed THEN Tail(s) ELSE s
    IN  IF ~DigitsOk(body) THEN ValueError
        ELSE LET mag == StripZeros(SelectSeq(body, IsDigit))
             IN  IF signed /\ Head(s) = 45 /\ mag # << 48 >>
                 THEN << 45 >> \o mag
                 ELSE mag

\* lexicographic order on digit sequences of equal length
RECURSIVE DigitsLeq(_, _)
DigitsLeq(a, b) ==
    IF a = << >> THEN TRUE
    ELSE IF Head(a) # Head(b) THEN Head(a) < Head(b)
    ELSE DigitsLeq(Tail(a), Tail(b))

\* 9223372036854775807 and 9223372036854775808
Int64Max == << 57,50,50,51,51,55,50,48,51,54,56,53,52,55,55,53,56,48,55 >>
Int64MinMag == << 57,50,50,51,51,55,50,48,51,54,56,53,52,55,55,53,56,48,56 >>

\* can the sqlite3 module bind this int as an SQLite INTEGER parameter?
FitsSqliteInteger(v) ==
    LET neg == Head(v) = 45
        mag == IF neg THEN Tail(v) ELSE v
        lim == IF neg THEN Int64MinMag ELSE Int64Max
    IN  \/ Len(mag) < Len(lim)
        \/ Len(mag) = Len(lim) /\ DigitsLeq(mag, lim)

\* unicodedata.category(c) == 'Cc': the C0 and C1 controls
IsCc(c) == c \in (0..31) \cup (127..159)

has_control_character(s) == \E i \in 1..Len(s) : IsCc(s[i])

(* ---------------------------- result codes ----------------------------- *)

\* RESULT_MESSAGES: result code -> message (the messages are rendered here
\* in English; the keys are the source's)
RESULT_MESSAGES ==
    [ c \in { "id-has-invalid-charactor", "id-already-exists",
              "id-does-not-exist", "id-is-manager",
              "manager-id-has-invalid-charactor", "manager-id-does-not-exist",
              "salary-has-invalid-charactor",
              "birth-year-has-invalid-charactor",
              "start-year-has-invalid-charactor",
              "name-has-control-charactor", "database-error",
              "added", "deleted", "updated" } |->
        CASE c = "id-has-invalid-charactor" -> "id: digits only"
          [] c = "id-already-exists" -> "id already exists"
          [] c = "id-does-not-exist" -> "id does not exist"
          [] c = "id-is-manager" -> "employee has subordinates"
          [] c = "manager-id-has-invalid-charactor" -> "manager id: digits only"
          [] c = "manager-id-does-not-exist" -> "manager id does not exist"
          [] c = "salary-has-invalid-charactor" -> "salary: digits only"
          [] c = "birth-year-has-invalid-charactor" -> "birth year: digits only"
          [] c = "start-year-has-invalid-charactor" -> "start year: digits only"
          [] c = "name-has-control-charactor" -> "name has a control character"
          [] c = "database-error" -> "database error"
          [] c = "added" -> "employee added"
          [] c = "deleted" -> "deleted"
          [] c = "updated" -> "updated" ]

\* RESULT_MESSAGES.get(code, 'code error')
ResultMessage(code) ==
    IF code \in DOMAIN RESULT_MESSAGES THEN RESULT_MESSAGES[code]
    ELSE "code error"

(* ---------------------------- storage ---------------------------------- *)

\* faulty variant: the lookup compares the wrong column
SelectById_WrongColumn(table, id) == { e \in table : e.manager_id = id }

\* SELECT id FROM employees WHERE id = ?
SelectById(table, id) == { e \in table : e.id = id }

\* faulty variant: "id = ?" for "id != ?"
SelectMember_SelfOnly(table, id) ==
    { e \in table : e.manager_id = id /\ e.id = id }

\* faulty variant: the "AND id != ?" is missing
SelectMember_NoSelfExclusion(table, id) ==
    { e \in table : e.manager_id = id }

\* SELECT id FROM employees WHERE manager_id = ? AND id != ?
SelectMember(table, id) ==
    { e \in table : e.manager_id = id /\ e.id # id }

\* INSERT INTO employees (...) VALUES (...)
Insert(table, row) == table \cup { row }

\* faulty variant: the WHERE clause is missing, but the id column is not set
Update_NoWhere(table, row) ==
    { [row EXCEPT !.id = e.id] : e \in table }

\* UPDATE employees SET name, salary, manager_id, birth_year, start_year
\* WHERE id = ?
Update(table, row) ==
    { IF e.id = row.id THEN row ELSE e : e \in table }

\* DELETE FROM employees WHERE id = ?
Delete(table, id) == { e \in table : e.id # id }

\* What cur.execute() of a SELECT does with these int parameters: binding an
\* int outside the INTEGER range raises OverflowError, the engine may raise
\* sqlite3.Error (fail says which storage call of the request fails).
SelectStatus(fail, params) ==
    IF \E p \in params : ~FitsSqliteInteger(p) THEN "OverflowError"
    ELSE IF fail = "select" THEN "sqlite3.Error"
    ELSE "ok"

\* the same for the INSERT, UPDATE or DELETE statement
ExecuteStatus(fail, params) ==
    IF \E p \in params : ~FitsSqliteInteger(p) THEN "OverflowError"
    ELSE IF fail = "execute" THEN "sqlite3.Error"
    ELSE "ok"

(* ---------------------------- responses -------------------------------- *)

NoResp == [kind |-> "none", endpoint |-> "", code |-> ""]

\* redirect(url_for(endpoint, code=code)); table is the committed table
Redirect(endpoint, code, table) ==
    [resp |-> [kind |-> "redirect", endpoint |-> endpoint, code |-> code],
     table |-> table]

\* an exception leaves the view function; nothing was committed
Raise(exception, table) ==
    [resp |-> [kind |-> "exception", endpoint |-> "", code |-> exception],
     table |-> table]

(* ---------------------------- the handlers ----------------------------- *)

\* faulty variant: the birth_year check is made before the salary check
FieldChecks_BirthYearFirst(r) ==
    IF int(r.birth_year) = ValueError
    THEN "birth-year-has-invalid-charactor"
    ELSE IF int(r.salary) = ValueError THEN "salary-has-invalid-charactor"
    ELSE IF int(r.start_year) = ValueError
         THEN "start-year-has-invalid-charactor"
    ELSE IF has_control_character(r.name) THEN "name-has-control-charactor"
    ELSE "ok"

\* The salary, birth_year, start_year and name checks, in the order both
\* employee_add_execute and employee_edit_update make them: the code of the
\* first one that fails, or "ok".
FieldChecks(r) ==
    IF int(r.salary) = ValueError THEN "salary-has-invalid-charactor"
    ELSE IF int(r.birth_year) = ValueError
         THEN "birth-year-has-invalid-charactor"
    ELSE IF int(r.start_year) = ValueError
         THEN "start-year-has-invalid-charactor"
    ELSE IF has_control_character(r.name) THEN "name-has-control-charactor"
    ELSE "ok"

\* the row the request describes, once every field has parsed
RowOf(r) ==
    [id |-> int(r.id), name |-> r.name, salary |-> int(r.salary),
     manager_id |-> int(r.manager_id), birth_year |-> int(r.birth_year),
     start_year |-> int(r.start_year)]

\* the int parameters of the INSERT and UPDATE statements
RowParams(row) ==
    {row.id, row.salary, row.manager_id, row.birth_year, row.start_year}

\* POST /employee-add on the committed table: the response and the table
\* committed when the request is over
employee_add_execute_run(table, r) ==
    LET id == int(r.id)
        manager_id == int(r.manager_id)
        ep == "employee_add_results"
    IN
    IF id = ValueError THEN Redirect(ep, "id-has-invalid-charactor", table)
    ELSE IF SelectStatus(r.fail, {id}) # "ok"
         THEN Raise(SelectStatus(r.fail, {id}), table)
    ELSE IF SelectById(table, id) # {}
         THEN Redirect(ep, "id-already-exists", table)
    ELSE IF manager_id = ValueError
         THEN Redirect(ep, "manager-id-has-invalid-charactor", table)
    ELSE IF id # manager_id /\ SelectStatus(r.fail, {manager_id}) # "ok"
         THEN Raise(SelectStatus(r.fail, {manager_id}), table)
    ELSE IF id # manager_id /\ SelectById(table, manager_id) = {}
         THEN Redirect(ep, "manager-id-does-not-exist", table)
    ELSE IF FieldChecks(r) # "ok" THEN Redirect(ep, FieldChecks(r), table)
    ELSE LET st == ExecuteStatus(r.fail, RowParams(RowOf(r)))
         IN  IF st = "sqlite3.Error"
             THEN Redirect(ep, "database-error", table)
             ELSE IF st # "ok" THEN Raise(st, table)
             \* con.commit() is outside the try; the uncommitted INSERT is
             \* rolled back when the connection is closed
             ELSE IF r.fail = "commit" THEN Raise("sqlite3.Error", table)
             ELSE Redirect(ep, "added", Insert(table, RowOf(r)))

\* POST /employee-edit/<id>
employee_edit_update_run(table, r) ==
    LET id_num == int(r.id)
        manager_id == int(r.manager_id)
        ep == "employee_edit_results"
    IN
    IF id_num = ValueError THEN Redirect(ep, "id-has-invalid-charactor", table)
    ELSE IF SelectStatus(r.fail, {id_num}) # "ok"
         THEN Raise(SelectStatus(r.fail, {id_num}), table)
    ELSE IF SelectById(table, id_num) = {}
         THEN Redirect(ep, "id-does-not-exist", table)
    ELSE IF manager_id = ValueError
         THEN Redirect(ep, "manager-id-has-invalid-charactor", table)
    ELSE IF id_num # manager_id /\ SelectStatus(r.fail, {manager_id}) # "ok"
         THEN Raise(SelectStatus(r.fail, {manager_id}), table)
    ELSE IF id_num # manager_id /\ SelectById(table, manager_id) = {}
         THEN Redirect(ep, "manager-id-does-not-exist", table)
    ELSE IF FieldChecks(r) # "ok" THEN Redirect(ep, FieldChecks(r), table)
    ELSE LET st == ExecuteStatus(r.fail, RowParams(RowOf(r)))
         IN  IF st = "sqlite3.Error"
             THEN Redirect(ep, "database-error", table)
             ELSE IF st # "ok" THEN Raise(st, table)
             ELSE IF r.fail = "commit" THEN Raise("sqlite3.Error", table)
             ELSE Redirect(ep, "updated", Update(table, RowOf(r)))

\* faulty variant: the row is deleted and committed before the subordinates are
\* looked for
employee_del_execute_run_DeleteFirst(table, r) ==
    LET id_num == int(r.id)
    IN
    IF id_num = ValueError
    THEN Redirect("employee_del_results", "id-has-invalid-charactor", table)
    ELSE IF SelectStatus(r.fail, {id_num}) # "ok"
         THEN Raise(SelectStatus(r.fail, {id_num}), table)
    ELSE IF SelectById(table, id_num) = {}
         THEN Redirect("employee_del_results", "id-does-not-exsit", table)
    ELSE LET st == ExecuteStatus(r.fail, {id_num})
         IN  IF st = "sqlite3.Error"
             THEN Redirect("employee_add_results", "database-error", table)
             ELSE IF st # "ok" THEN Raise(st, table)
             ELSE IF r.fail = "commit" THEN Raise("sqlite3.Error", table)
             ELSE IF SelectMember(table, id_num) # {}
             THEN Redirect("employee_del_results", "id-is-manager",
                           Delete(table, id_num))
             ELSE Redirect("employee_add_results", "deleted",
                           Delete(table, id_num))

\* POST /employee-del/<id>
employee_del_execute_run(table, r) ==
    LET id_num == int(r.id)
    IN
    IF id_num = ValueError
    THEN Redirect("employee_del_results", "id-has-invalid-charactor", table)
    ELSE IF SelectStatus(r.fail, {id_num}) # "ok"
         THEN Raise(SelectStatus(r.fail, {id_num}), table)
    ELSE IF SelectById(table, id_num) = {}
         THEN Redirect("employee_del_results", "id-does-not-exsit", table)
    ELSE IF SelectMember(table, id_num) # {}
         THEN Redirect("employee_del_results", "id-is-manager", table)
    ELSE LET st == ExecuteStatus(r.fail, {id_num})
         IN  IF st = "sqlite3.Error"
             THEN Redirect("employee_add_results", "database-error", table)
             ELSE IF st # "ok" THEN Raise(st, table)
             ELSE IF r.fail = "commit" THEN Raise("sqlite3.Error", table)
             ELSE Redirect("employee_add_results", "deleted",
                           Delete(table, id_num))

(* ---------------------------- requests --------------------------------- *)

\* "x", " 1" (parses to 1) and the out-of-range numeral
IdTexts ==
    { Numeral(i) : i \in 1..MaxId } \cup { << 120 >>, << 32, 49 >>, HugeText }

\* the empty string and the out-of-range numeral
ManagerTexts == { Numeral(i) : i \in 1..MaxId } \cup { << >>, HugeText }

\* " 5", "1__0" (a doubled underscore) and the out-of-range numeral
SalaryTexts == { << 32, 53 >>, << 49, 95, 95, 48 >>, HugeText }

\* "1990" and "y"
BirthYearTexts == { << 49, 57, 57, 48 >>, << 121 >> }

\* "+2015" and "-"
StartYearTexts == { << 43, 50, 48, 49, 53 >>, << 45 >> }

\* "A" and "A\n"
Names == { << 65 >>, << 65, 10 >> }

\* which storage call of the request raises sqlite3.Error
Fails == { "none", "select", "execute", "commit" }

NoReq ==
    [op |-> "none", id |-> << >>, name |-> << >>, salary |-> << >>,
     manager_id |-> << >>, birth_year |-> << >>, start_year |-> << >>,
     fail |-> "none"]

\* the form of POST /employee-add and of POST /employee-edit/<id>
FormRequests(op) ==
    { [op |-> op, id |-> i, name |-> n, salary |-> s, manager_id |-> m,
       birth_year |-> b, start_year |-> y, fail |-> f] :
      i \in IdTexts, n \in Names, s \in SalaryTexts, m \in ManagerTexts,
      b \in BirthYearTexts, y \in StartYearTexts, f \in Fails }

\* POST /employee-del/<id> has no form
DelRequests ==
    { [NoReq EXCEPT !.op = "del", !.id = i, !.fail = f] :
      i \in IdTexts, f \in Fails }

(* ---------------------------- the state machine ------------------------ *)

VARIABLES
    employees,    \* the committed rows of the employees table
    g_database,   \* g._database: "open" while the request holds a connection
    req,          \* the request last handled
    resp,         \* its response: a redirect, or an exception that escaped
    page          \* the page shown to the client between requests

vars == << employees, g_database, req, resp, page >>

Init ==
    /\ employees = {}
    /\ g_database = "none"
    /\ req = NoReq
    /\ resp = NoResp
    /\ page = "index.html"

\* requests are handled one after the other: the client submits the next
\* form from the entry page
Idle == resp = NoResp /\ page = "index.html"

Handle(r, out) ==
    /\ req' = r
    /\ resp' = out.resp
    /\ employees' = out.table
    /\ g_database' = "open"
    /\ page' = ""

employee_add_execute ==
    /\ Idle
    /\ \E r \in FormRequests("add") :
        Handle(r, employee_add_execute_run(employees, r))

employee_edit_update ==
    /\ Idle
    /\ \E r \in FormRequests("edit") :
        Handle(r, employee_edit_update_run(employees, r))

employee_del_execute ==
    /\ Idle
    /\ \E r \in DelRequests :
        Handle(r, employee_del_execute_run(employees, r))

\* teardown of the request: the connection is closed.  A request that
\* ended with an exception is answered with the server's error page.
close_connection ==
    /\ g_database = "open"
    /\ g_database' = "none"
    /\ IF resp.kind = "exception"
       THEN /\ page' = "500 Internal Server Error"
            /\ req' = NoReq
            /\ resp' = NoResp
       ELSE UNCHANGED << req, resp, page >>
    /\ UNCHANGED employees

\* the client follows the redirect: GET /employee-*-results/<code>
Results(endpoint) ==
    /\ g_database = "none"
    /\ resp.kind = "redirect"
    /\ resp.endpoint = endpoint
    /\ page' = ResultMessage(resp.code)
    /\ req' = NoReq
    /\ resp' = NoResp
    /\ UNCHANGED << employees, g_database >>

employee_add_results == Results("employee_add_results")

employee_del_results == Results("employee_del_results")

employee_edit_results == Results("employee_edit_results")

\* GET /: back to the entry page
index ==
    /\ resp = NoResp
    /\ page # "index.html"
    /\ page' = "index.html"
    /\ UNCHANGED << employees, g_database, req, resp >>

Next ==
    \/ employee_add_execute
    \/ employee_edit_update
    \/ employee_del_execute
    \/ close_connection
    \/ employee_add_results
    \/ employee_del_results
    \/ employee_edit_results
    \/ index

Spec == Init /\ [][Next]_vars

(* ---------------------------- vocabulary of the properties ------------- *)

Ids(table) == { e.id : e \in table }

\* this step is the handling of a request of kind op
Handles(op) == Idle /\ req'.op = op

\* C1: every row's manager_id is the id of a row of the table (its own or
\* another row's), whatever Add, Edit and Delete requests were handled.
C1_ReferentialIntegrity ==
    \A e \in employees : e.manager_id \in Ids(employees)

\* an Edit has just made one row the subordinate of another
C1_Witness ==
    /\ req.op = "edit"
    /\ resp.code = "updated"
    /\ \E e \in employees : e.manager_id # e.id

\* C2: Delete of an existing id that another row names as manager returns
\* id-is-manager and keeps the row; a row named as manager by no other row
\* (at most by itself) is never refused with id-is-manager, and is deleted
\* with code deleted when no storage call of the request fails.
C2_DeleteGuard ==
    [][ Handles("del") /\ int(req'.id) \in Ids(employees) =>
        LET id == int(req'.id)
            others == { e \in employees : e.id # id /\ e.manager_id = id }
        IN  /\ others # {} /\ req'.fail # "select" =>
                /\ resp'.kind = "redirect"
                /\ resp'.code = "id-is-manager"
                /\ id \in Ids(employees')
            /\ others = {} =>
                /\ resp'.code # "id-is-manager"
                /\ req'.fail = "none" =>
                    /\ resp'.kind = "redirect"
                    /\ resp'.code = "deleted"
                    /\ id \notin Ids(employees')
      ]_vars

\* a Delete was refused because of a subordinate
C2_Witness ==
    /\ req.op = "del"
    /\ resp.code = "id-is-manager"
    /\ \E e \in employees : e.id # int(req.id) /\ e.manager_id = int(req.id)

\* a self-managed row was deleted
C2_WitnessSelf ==
    /\ req.op = "del"
    /\ resp.code = "deleted"
    /\ int(req.id) \notin Ids(employees)

\* The checks of Add and Edit in the documented order, each stated on the
\* request and the table before the request: 1 id parses, 2 id existence
\* (absent for Add, present for Edit), 3 manager_id parses, 4 the manager
\* exists unless it is the employee itself, 5 salary, 6 birth_year and
\* 7 start_year parse, 8 name has no control character.
CheckFails(k, op, table, r) ==
    LET id == int(r.id)
        m == int(r.manager_id)
    IN  CASE k = 1 -> id = ValueError
          [] k = 2 -> /\ id # ValueError
                      /\ (op = "add") = (id \in Ids(table))
          [] k = 3 -> m = ValueError
          [] k = 4 -> /\ id # ValueError
                      /\ m # ValueError
                      /\ m # id
                      /\ m \notin Ids(table)
          [] k = 5 -> int(r.salary) = ValueError
          [] k = 6 -> int(r.birth_year) = ValueError
          [] k = 7 -> int(r.start_year) = ValueError
          [] k = 8 -> \E i \in 1..Len(r.name) : IsCc(r.name[i])

CheckCode(k, op) ==
    CASE k = 1 -> "id-has-invalid-charactor"
      [] k = 2 -> IF op = "add" THEN "id-already-exists"
                  ELSE "id-does-not-exist"
      [] k = 3 -> "manager-id-has-invalid-charactor"
      [] k = 4 -> "manager-id-does-not-exist"
      [] k = 5 -> "salary-has-invalid-charactor"
      [] k = 6 -> "birth-year-has-invalid-charactor"
      [] k = 7 -> "start-year-has-invalid-charactor"
      [] k = 8 -> "name-has-control-charactor"

FailingChecks(op, table, r) ==
    { k \in 1..8 : CheckFails(k, op, table, r) }

\* C3: whenever Add or Edit answers with a result code, that code is the
\* code of the earliest failing check in the documented order if some check
\* fails, and is the code of no check if none fails.
C3_FirstFailureWins ==
    [][ \A op \in {"add", "edit"} :
          Handles(op) /\ resp'.kind = "redirect" =>
            LET failing == FailingChecks(op, employees, req')
            IN  IF failing # {}
                THEN \E k \in failing :
                        /\ \A j \in failing : k <= j
                        /\ resp'.code = CheckCode(k, op)
                ELSE \A k \in 1..8 : resp'.code # CheckCode(k, op)
      ]_vars

\* an Add in which the manager, the salary and the name checks all fail was
\* answered with the manager's code
C3_Witness ==
    /\ req.op = "add"
    /\ resp.code = "manager-id-does-not-exist"
    /\ {4, 5, 8} \subseteq FailingChecks("add", employees, req)

\* C4: Add with an id that is in the table returns id-already-exists
\* whatever the other fields hold and leaves the table as it was (the id
\* lookup itself not failing), and no two rows of the table share an id.
C4_UniqueId ==
    /\ [](\A e, f \in employees : e.id = f.id => e = f)
    /\ [][ Handles("add") /\ int(req'.id) \in Ids(employees)
           /\ req'.fail # "select" =>
             /\ resp'.kind = "redirect"
             /\ resp'.code = "id-already-exists"
             /\ employees' = employees
         ]_vars

\* an Add of an existing id whose other fields are invalid as well was
\* refused with id-already-exists
C4_Witness ==
    /\ req.op = "add"
    /\ resp.code = "id-already-exists"
    /\ int(req.id) \in Ids(employees)
    /\ int(req.manager_id) = ValueError
    /\ has_control_character(req.name)

\* the handler of a request
Run(table, r) ==
    CASE r.op = "add" -> employee_add_execute_run(table, r)
      [] r.op = "edit" -> employee_edit_update_run(table, r)
      [] r.op = "del" -> employee_del_execute_run(table, r)

\* C5: a request answered with a code other than added, updated or deleted
\* leaves the table as it was, and the same request (meeting the same
\* storage behaviour) handled again in that state gets the same code and
\* again leaves the table as it was.
C5_FailedRequestMutatesNothing ==
    [][ \A op \in {"add", "edit", "del"} :
          /\ Handles(op)
          /\ resp'.kind = "redirect"
          /\ resp'.code \notin {"added", "updated", "deleted"}
          => /\ employees' = employees
             /\ Run(employees', req').resp = resp'
             /\ Run(employees', req').table = employees'
      ]_vars

\* a Delete of a manager was refused while the table held two rows
C5_Witness ==
    /\ req.op = "del"
    /\ resp.kind = "redirect"
    /\ resp.code = "id-is-manager"
    /\ Cardinality(employees) = 2

\* C6: Delete of a parseable id that is not in the table returns
\* id-does-not-exist, every result code a handler returns is a key of
\* RESULT_MESSAGES, and so no results page shows the code error message.
C6_EveryCodeHasMessage ==
    /\ resp.kind = "redirect" => resp.code \in DOMAIN RESULT_MESSAGES
    /\ req.op = "del" /\ resp.kind = "redirect" /\ resp.code # "deleted"
       /\ int(req.id) # ValueError /\ int(req.id) \notin Ids(employees)
       => resp.code = "id-does-not-exist"
    /\ page # "code error"

\* C7: every Add, Edit and Delete request ends with a redirect; no
\* exception leaves the handler, whatever the input and whichever storage
\* call fails.
C7_NoExceptionEscapes ==
    req.op # "none" => resp.kind = "redirect"

\* C8: Add or Edit with manager_id equal to id never returns
\* manager-id-does-not-exist, Add of a self-managed employee with valid
\* fields to the empty table returns added, and Add or Edit with a
\* manager_id that differs from id and is the id of no row returns
\* manager-id-does-not-exist once the id checks have passed (no storage
\* failure being injected).
C8_ManagerRule ==
    [][ \A op \in {"add", "edit"} :
          Handles(op) =>
            LET id == int(req'.id)
                m == int(req'.manager_id)
            IN  /\ id # ValueError /\ m = id =>
                    resp'.code # "manager-id-does-not-exist"
                /\ /\ op = "add"
                   /\ employees = {}
                   /\ id # ValueError
                   /\ m = id
                   /\ FailingChecks(op, employees, req') = {}
                   /\ \A v \in RowParams(RowOf(req')) : FitsSqliteInteger(v)
                   /\ req'.fail = "none"
                   => resp'.kind = "redirect" /\ resp'.code = "added"
                /\ /\ FailingChecks(op, employees, req') \cap {1, 2, 3} = {}
                   /\ FitsSqliteInteger(id)
                   /\ m # id
                   /\ m \notin Ids(employees)
                   /\ req'.fail = "none"
                   => /\ resp'.kind = "redirect"
                      /\ resp'.code = "manager-id-does-not-exist"
      ]_vars

\* the results endpoint of each mutating handler
ResultsEndpoint(op) ==
    CASE op = "add" -> "employee_add_results"
      [] op = "edit" -> "employee_edit_results"
      [] op = "del" -> "employee_del_results"

\* C9: every outcome of the Add, Edit and Delete POST is a redirect to the
\* results endpoint of that operation.
C9_RedirectToOwnResults ==
    resp.kind = "redirect" => resp.endpoint = ResultsEndpoint(req.op)

\* C10: Edit leaves the set of ids as it was; when it returns updated, the
\* row with the edited id holds the submitted name, salary, manager_id,
\* birth_year and start_year, and every other row is as it was.
C10_EditFrame ==
    [][ Handles("edit") =>
          /\ Ids(employees') = Ids(employees)
          /\ resp'.code = "updated" =>
               LET id == int(req'.id)
               IN  /\ \A e \in employees : e.id # id => e \in employees'
                   /\ \A e \in employees' : e.id # id => e \in employees
                   /\ \A e \in employees' : e.id = id =>
                        /\ e.name = req'.name
                        /\ e.salary = int(req'.salary)
                        /\ e.manager_id = int(req'.manager_id)
                        /\ e.birth_year = int(req'.birth_year)
                        /\ e.start_year = int(req'.start_year)
      ]_vars

\* an Edit updated one of two rows: the edited row now has the other row
\* as its manager, and the other row still manages itself
C10_Witness ==
    /\ req.op = "edit"
    /\ resp.code = "updated"
    /\ \E e, f \in employees :
          /\ e.id = int(req.id)
          /\ f.id # e.id
          /\ e.manager_id = f.id
          /\ f.manager_id = f.id
          /\ e.salary = << 53 >>

(* ---------------------------- concurrent requests ---------------------- *)
(* Two clients whose requests are handled at the same time, each on its    *)
(* own connection.  A handler is split at its storage calls: the id        *)
(* lookup, the manager (or subordinate) lookup, the INSERT, UPDATE or      *)
(* DELETE, and the commit.  The variables are those of the sequential      *)
(* machine, one value per client:                                          *)
(*   req[p]         the request of client p and the position of its handler*)
(*   resp[p]        the response, once the handler has returned            *)
(*   g_database[p]  the connection of the request: whether it is open,     *)
(*                  whether it holds the write lock of a transaction, and  *)
(*                  the table as that transaction has written it           *)
(* employees is the committed table; page is not used.                     *)
(***************************************************************************)

Procs == { "p1", "p2" }

\* requests with valid fields: what races is the id and the manager_id
ConcRequests ==
    { [op |-> o, id |-> Numeral(i), name |-> << 65 >>, salary |-> << 32, 53 >>,
       manager_id |-> Numeral(m), birth_year |-> << 49, 57, 57, 48 >>,
       start_year |-> << 43, 50, 48, 49, 53 >>, fail |-> "none"] :
      o \in {"add", "edit"}, i \in 1..MaxId, m \in 1..MaxId }
    \cup { [NoReq EXCEPT !.op = "del", !.id = Numeral(i)] : i \in 1..MaxId }

NoConn == [conn |-> "none", writing |-> FALSE, pending |-> {}]

ConcInit ==
    /\ employees = {}
    /\ g_database = [p \in Procs |-> NoConn]
    /\ req = [p \in Procs |-> [form |-> NoReq, at |-> "idle"]]
    /\ resp = [p \in Procs |-> NoResp]
    /\ page = ""

\* faulty variant: foreign key enforcement is never switched on
ForeignKeysOn_Missing == FALSE

\* db.execute('PRAGMA foreign_keys = ON') on every new connection
ForeignKeysOn == TRUE

\* id is the PRIMARY KEY of employees: no second row with the id of row
PrimaryKeyOk(table, row) == row.id \notin Ids(table)

\* manager_id REFERENCES employees(id), checked when the statement ends:
\* every row the statement leaves has its manager in the table, rows that
\* were orphans before the statement aside
ForeignKeyOk(old, new) ==
    \A e \in new :
        \/ e.manager_id \in Ids(new)
        \/ e \in old /\ e.manager_id \notin Ids(old)

\* the table after the statement of the request
StatementResult(table, r) ==
    CASE r.op = "add" -> Insert(table, RowOf(r))
      [] r.op = "edit" -> Update(table, RowOf(r))
      [] r.op = "del" -> Delete(table, int(r.id))

\* does the engine accept the statement (else sqlite3.IntegrityError)?
StatementAccepted(table, r) ==
    /\ r.op = "add" => PrimaryKeyOk(table, RowOf(r))
    /\ ForeignKeysOn => ForeignKeyOk(table, StatementResult(table, r))

\* the int parameters of the statement of the request
StatementParams(r) ==
    IF r.op = "del" THEN { int(r.id) } ELSE RowParams(RowOf(r))

\* the endpoint the checks of a handler redirect to
CheckEndpoint(op) ==
    CASE op = "add" -> "employee_add_results"
      [] op = "edit" -> "employee_edit_results"
      [] op = "del" -> "employee_del_results"

\* the endpoint the statement and the success of a handler redirect to
StatementEndpoint(op) ==
    IF op = "edit" THEN "employee_edit_results" ELSE "employee_add_results"

SuccessCode(op) ==
    CASE op = "add" -> "added"
      [] op = "edit" -> "updated"
      [] op = "del" -> "deleted"

\* the handler of client p moves on to the next storage call
Goto(p, at) ==
    /\ req' = [req EXCEPT ![p].at = at]
    /\ UNCHANGED << resp, employees, g_database, page >>

\* the handler of client p returns; the teardown is still to come
Answer(p, out) ==
    /\ resp' = [resp EXCEPT ![p] = out.resp]
    /\ req' = [req EXCEPT ![p].at = "teardown"]
    /\ UNCHANGED << employees, g_database, page >>

\* a request of client p arrives; get_db() opens its connection
Start(p) ==
    /\ req[p].at = "idle"
    /\ \E r \in ConcRequests :
          req' = [req EXCEPT ![p] = [form |-> r, at |-> "lookup_id"]]
    /\ resp' = [resp EXCEPT ![p] = NoResp]
    /\ g_database' = [g_database EXCEPT ![p].conn = "open"]
    /\ UNCHANGED << employees, page >>

\* int(id) and SELECT id FROM employees WHERE id = ?
LookupId(p) ==
    /\ req[p].at = "lookup_id"
    /\ LET r == req[p].form
           id == int(r.id)
           ep == CheckEndpoint(r.op)
           found == SelectById(employees, id) # {}
       IN  IF id = ValueError
           THEN Answer(p, Redirect(ep, "id-has-invalid-charactor", employees))
           ELSE IF SelectStatus(r.fail, {id}) # "ok"
           THEN Answer(p, Raise(SelectStatus(r.fail, {id}), employees))
           ELSE IF r.op = "add" /\ found
           THEN Answer(p, Redirect(ep, "id-already-exists", employees))
           ELSE IF r.op = "edit" /\ ~found
           THEN Answer(p, Redirect(ep, "id-does-not-exist", employees))
           ELSE IF r.op = "del" /\ ~found
           THEN Answer(p, Redirect(ep, "id-does-not-exsit", employees))
           ELSE Goto(p, IF r.op = "del" THEN "lookup_member"
                        ELSE "lookup_manager")

\* Add and Edit: int(manager_id), the manager lookup and the field checks
LookupManager(p) ==
    /\ req[p].at = "lookup_manager"
    /\ LET r == req[p].form
           id == int(r.id)
           manager_id == int(r.manager_id)
           ep == CheckEndpoint(r.op)
       IN  IF manager_id = ValueError
           THEN Answer(p, Redirect(ep, "manager-id-has-invalid-charactor",
                                   employees))
           ELSE IF id # manager_id
                   /\ SelectStatus(r.fail, {manager_id}) # "ok"
           THEN Answer(p, Raise(SelectStatus(r.fail, {manager_id}),
                                employees))
           ELSE IF id # manager_id /\ SelectById(employees, manager_id) = {}
           THEN Answer(p, Redirect(ep, "manager-id-does-not-exist",
                                   employees))
           ELSE IF FieldChecks(r) # "ok"
           THEN Answer(p, Redirect(ep, FieldChecks(r), employees))
           ELSE Goto(p, "execute")

\* Delete: SELECT id FROM employees WHERE manager_id = ? AND id != ?
LookupMember(p) ==
    /\ req[p].at = "lookup_member"
    /\ LET r == req[p].form
           id_num == int(r.id)
       IN  IF SelectStatus(r.fail, {id_num}) # "ok"
           THEN Answer(p, Raise(SelectStatus(r.fail, {id_num}), employees))
           ELSE IF SelectMember(employees, id_num) # {}
           THEN Answer(p, Redirect("employee_del_results", "id-is-manager",
                                   employees))
           ELSE Goto(p, "execute")

\* another connection holds the write lock
Locked(p) == \E q \in Procs \ {p} : g_database[q].writing

\* the INSERT, UPDATE or DELETE inside its try: it opens a transaction,
\* which holds the write lock until the commit or the teardown; an
\* sqlite3.Error (a rejected statement included) becomes database-error
Execute(p) ==
    /\ req[p].at = "execute"
    /\ ~Locked(p)
    /\ LET r == req[p].form
           st == ExecuteStatus(r.fail, StatementParams(r))
           ep == StatementEndpoint(r.op)
       IN  IF st = "OverflowError"
           THEN Answer(p, Raise(st, employees))
           ELSE IF st = "sqlite3.Error" \/ ~StatementAccepted(employees, r)
           THEN /\ resp' = [resp EXCEPT ![p] =
                               Redirect(ep, "database-error", employees).resp]
                /\ req' = [req EXCEPT ![p].at = "teardown"]
                /\ g_database' = [g_database EXCEPT ![p].writing = TRUE,
                                                    ![p].pending = employees]
                /\ UNCHANGED << employees, page >>
           ELSE /\ req' = [req EXCEPT ![p].at = "commit"]
                /\ g_database' =
                     [g_database EXCEPT
                        ![p].writing = TRUE,
                        ![p].pending = StatementResult(employees, r)]
                /\ UNCHANGED << resp, employees, page >>

\* the statement waited for the write lock until the busy timeout:
\* sqlite3.OperationalError, database is locked
BusyTimeout(p) ==
    /\ req[p].at = "execute"
    /\ Locked(p)
    /\ Answer(p, Redirect(StatementEndpoint(req[p].form.op), "database-error",
                          employees))

\* con.commit(), outside any try, and the redirect that reports success
Commit(p) ==
    /\ req[p].at = "commit"
    /\ LET r == req[p].form
       IN  IF r.fail = "commit"
           THEN Answer(p, Raise("sqlite3.Error", employees))
           ELSE /\ employees' = g_database[p].pending
                /\ g_database' = [g_database EXCEPT ![p].writing = FALSE,
                                                    ![p].pending = {}]
                /\ resp' = [resp EXCEPT ![p] =
                              Redirect(StatementEndpoint(r.op),
                                       SuccessCode(r.op), employees).resp]
                /\ req' = [req EXCEPT ![p].at = "teardown"]
                /\ UNCHANGED page

\* close_connection for the request of client p: what was not committed
\* is rolled back and the write lock is released; the request is over
Teardown(p) ==
    /\ req[p].at = "teardown"
    /\ g_database' = [g_database EXCEPT ![p] = NoConn]
    /\ req' = [req EXCEPT ![p] = [form |-> NoReq, at |-> "idle"]]
    /\ resp' = [resp EXCEPT ![p] = NoResp]
    /\ UNCHANGED << employees, page >>

ConcNext ==
    \E p \in Procs :
        \/ Start(p)
        \/ LookupId(p)
        \/ LookupManager(p)
        \/ LookupMember(p)
        \/ Execute(p)
        \/ BusyTimeout(p)
        \/ Commit(p)
        \/ Teardown(p)

ConcSpec == ConcInit /\ [][ConcNext]_vars

\* the statement of request r would break the primary key or the foreign
\* key on this committed table, stated on the rows
BreaksConstraint(table, r) ==
    LET id == int(r.id)
        m == int(r.manager_id)
    IN  CASE r.op = "add" ->
               \/ \E e \in table : e.id = id
               \/ m # id /\ \A e \in table : e.id # m
          [] r.op = "edit" ->
               /\ \E e \in table : e.id = id
               /\ m # id
               /\ \A e \in table : e.id # m
          [] r.op = "del" ->
               \E e \in table : e.id # id /\ e.manager_id = id

\* C11: with the checks and the mutation of concurrent requests
\* interleaved, no two committed rows share an id and every committed
\* manager_id is the id of a committed row; a request whose statement
\* would break either (an Add of an id a racing Add has inserted, an Add or
\* Edit naming a manager a racing Delete has removed, a Delete of a manager
\* a racing Add or Edit has named) gets database-error and changes nothing,
\* and the request whose statement is accepted commits it and gets its
\* success code.
C11_ConcurrentIntegrity ==
    /\ [](/\ \A e, f \in employees : e.id = f.id => e = f
          /\ \A e \in employees : \E f \in employees : f.id = e.manager_id)
    /\ [][ \A p \in Procs :
             LET r == req[p].form
             IN  /\ /\ req[p].at = "execute"
                    /\ req'[p].at # "execute"
                    /\ BreaksConstraint(employees, r)
                    => /\ resp'[p].kind = "redirect"
                       /\ resp'[p].code = "database-error"
                       /\ employees' = employees
                 /\ req[p].at = "commit" /\ req'[p].at # "commit" =>
                       /\ resp'[p].kind = "redirect"
                       /\ resp'[p].code =
                            (CASE r.op = "add" -> "added"
                               [] r.op = "edit" -> "updated"
                               [] r.op = "del" -> "deleted")
                       /\ r.op = "add" =>
                            Cardinality({ e \in employees' :
                                            e.id = int(r.id) }) = 1
         ]_vars

\* two Adds of the same id raced: one was answered added, the INSERT of
\* the other was rejected by the engine and answered database-error, and
\* one row has the id
C11_Witness ==
    \E p, q \in Procs :
        /\ p # q
        /\ req[p].form.op = "add"
        /\ req[q].form.op = "add"
        /\ int(req[p].form.id) = int(req[q].form.id)
        /\ req[p].at = "teardown"
        /\ resp[p].code = "added"
        /\ req[q].at = "teardown"
        /\ g_database[q].writing
        /\ resp[q].code = "database-error"
        /\ Cardinality({ e \in employees : e.id = int(req[p].form.id) }) = 1

\* a Delete raced with an Add that named the deleted row as manager: the
\* Delete committed and the INSERT was rejected
C11_WitnessDelete ==
    \E p, q \in Procs :
        /\ req[p].form.op = "del"
        /\ req[p].at = "teardown"
        /\ resp[p].code = "deleted"
        /\ req[q].form.op = "add"
        /\ int(req[q].form.manager_id) = int(req[p].form.id)
        /\ req[q].at = "teardown"
        /\ g_database[q].writing
        /\ resp[q].code = "database-error"

====
